---- MODULE Spec2Model ----
(***************************************************************************)
(* Model of the payments engine: the TransactionManager (ledger engine),    *)
(* the per-client Balance and the per-transaction TransactionState.         *)
(*                                                                          *)
(* Amounts are i64 base units in the source.  All amounts the model feeds   *)
(* to the engine are tiny compared with 2^63, so no addition or             *)
(* subtraction of the model can leave the i64 range and plain integer       *)
(* arithmetic is exactly the source's arithmetic.                           *)
(***************************************************************************)
EXTENDS Integers, FiniteSets, Sequences, TLC

(***************************************************************************)
(* Bounds of the model.                                                     *)
(***************************************************************************)
\* Transaction ids (u32 in the source) are drawn from 1..MaxTxId.
MaxTxId == 2
MaxCalls == 4

TxIds == 1..MaxTxId
\* Client ids (u16 in the source): an owner and one other client.  The engine
\* only ever uses a client id as a map key and compares it for equality.
ClientIds == {1, 2}
\* amount_base_units handed to accept: a negative one, zero, and the two
\* amounts of the repository's tests (50 and 100 base units).
Amounts == {-1, 0, 50, 100}

(***************************************************************************)
(* Results of accept: Result<(), TransactionError>.  Every result is a      *)
(* tuple whose first element names the variant.                             *)
(***************************************************************************)
Ok == <<"Ok">>
Err(e) == <<e>>
InvalidStateTransition(from, to) == <<"InvalidStateTransition", from, to>>
IsOk(r) == r = Ok

(***************************************************************************)
(* Balance (balance.rs)                                                     *)
(***************************************************************************)
BalanceNew ==
    [available_base_units |-> 0, held_base_units |-> 0,
     total_base_units |-> 0, locked |-> FALSE]

\* Mutant of BalanceDeposit: a deposit clears the locked flag.
BalanceDepositUnlocks(b, amount) ==
    [b EXCEPT !.available_base_units = @ + amount,
              !.total_base_units = @ + amount,
              !.locked = FALSE]

BalanceDeposit(b, amount) ==
    [b EXCEPT !.available_base_units = @ + amount,
              !.total_base_units = @ + amount]

\* Mutant of BalanceWithdrawal: the funds check is off by one (<= for <).
BalanceWithdrawalOffByOne(b, amount) ==
    IF b.available_base_units <= amount
    THEN [result |-> Err("InsufficientFunds"), balance |-> b]
    ELSE [result |-> Ok,
          balance |-> [b EXCEPT !.available_base_units = @ - amount,
                                !.total_base_units = @ - amount]]

\* Mutant of BalanceWithdrawal: a locked account cannot withdraw.
BalanceWithdrawalLockedRefuses(b, amount) ==
    IF b.locked \/ b.available_base_units < amount
    THEN [result |-> Err("InsufficientFunds"), balance |-> b]
    ELSE [result |-> Ok,
          balance |-> [b EXCEPT !.available_base_units = @ - amount,
                                !.total_base_units = @ - amount]]

\* Mutant of BalanceWithdrawal: the total is left alone.
BalanceWithdrawalKeepsTotal(b, amount) ==
    IF b.available_base_units < amount
    THEN [result |-> Err("InsufficientFunds"), balance |-> b]
    ELSE [result |-> Ok,
          balance |-> [b EXCEPT !.available_base_units = @ - amount]]

\* Mutant of BalanceWithdrawal: the funds are not checked.
BalanceWithdrawalUnchecked(b, amount) ==
    [result |-> Ok,
     balance |-> [b EXCEPT !.available_base_units = @ - amount,
                           !.total_base_units = @ - amount]]

\* Result<(), TransactionError> together with the balance after the call.
BalanceWithdrawal(b, amount) ==
    IF b.available_base_units < amount
    THEN [result |-> Err("InsufficientFunds"), balance |-> b]
    ELSE [result |-> Ok,
          balance |-> [b EXCEPT !.available_base_units = @ - amount,
                                !.total_base_units = @ - amount]]

\* Mutant of BalanceHold: held grows but available is left alone.
BalanceHoldKeepsAvailable(b, amount) ==
    [b EXCEPT !.held_base_units = @ + amount]

\* Mutant of BalanceHold: no more than what is available is held.
BalanceHoldCapped(b, amount) ==
    LET h == IF b.available_base_units < amount THEN b.available_base_units ELSE amount
    IN [b EXCEPT !.available_base_units = @ - h,
                 !.held_base_units = @ + h]

BalanceHold(b, amount) ==
    [b EXCEPT !.available_base_units = @ - amount,
              !.held_base_units = @ + amount]

\* Mutant of BalanceRelease: available grows but held is left alone.
BalanceReleaseKeepsHeld(b, amount) ==
    [b EXCEPT !.available_base_units = @ + amount]

\* Mutant of BalanceRelease: releasing the held funds also unlocks.
BalanceReleaseUnlocks(b, amount) ==
    [b EXCEPT !.available_base_units = @ + amount,
              !.held_base_units = @ - amount,
              !.locked = FALSE]

BalanceRelease(b, amount) ==
    [b EXCEPT !.available_base_units = @ + amount,
              !.held_base_units = @ - amount]

\* Mutant of BalanceChargeback: total is reduced but held is left alone.
BalanceChargebackKeepsHeld(b, amount) ==
    [b EXCEPT !.total_base_units = @ - amount,
              !.locked = TRUE]

\* Mutant of BalanceChargeback: the account is not locked.
BalanceChargebackNoLock(b, amount) ==
    [b EXCEPT !.total_base_units = @ - amount,
              !.held_base_units = @ - amount]

BalanceChargeback(b, amount) ==
    [b EXCEPT !.total_base_units = @ - amount,
              !.held_base_units = @ - amount,
              !.locked = TRUE]

(***************************************************************************)
(* TransactionState (transaction.rs)                                        *)
(***************************************************************************)
\* Mutant of TransactionStateNew: the amount is not checked.
TransactionStateNewUnchecked(transaction_type, id, client_id, amount) ==
    [state |-> [transaction_type |-> transaction_type,
                id |-> id,
                client_id |-> client_id,
                amount_base_units |-> amount,
                status |-> "Valid"],
     result |-> Ok]

TransactionStateNew(transaction_type, id, client_id, amount) ==
    IF amount < 0
    THEN [state |-> <<>>, result |-> Err("AmountIsNegative")]
    ELSE [state |-> [transaction_type |-> transaction_type,
                     id |-> id,
                     client_id |-> client_id,
                     amount_base_units |-> amount,
                     status |-> "Valid"],
          result |-> Ok]

\* Mutant of StateDispute: the record's kind is not looked at.
StateDisputeAnyKind(t) ==
    IF t.status # "Valid"
    THEN [state |-> t, result |-> InvalidStateTransition(t.status, "Disputed")]
    ELSE [state |-> [t EXCEPT !.status = "Disputed"], result |-> Ok]

StateDispute(t) ==
    IF t.transaction_type = "Withdrawal"
    THEN [state |-> t, result |-> Err("DisputeWithdrawalNotSupported")]
    ELSE IF t.status # "Valid"
    THEN [state |-> t, result |-> InvalidStateTransition(t.status, "Disputed")]
    ELSE [state |-> [t EXCEPT !.status = "Disputed"], result |-> Ok]

\* Mutant of StateResolve: the current status is not checked.
StateResolveUnchecked(t) ==
    [state |-> [t EXCEPT !.status = "Resolved"], result |-> Ok]

\* Mutant of StateResolve: the resolved record stays Disputed.
StateResolveKeepsDisputed(t) ==
    IF t.status # "Disputed"
    THEN [state |-> t, result |-> InvalidStateTransition(t.status, "Resolved")]
    ELSE [state |-> t, result |-> Ok]

StateResolve(t) ==
    IF t.status # "Disputed"
    THEN [state |-> t, result |-> InvalidStateTransition(t.status, "Resolved")]
    ELSE [state |-> [t EXCEPT !.status = "Resolved"], result |-> Ok]

\* Mutant of StateChargeback: the error names the wrong target status.
StateChargebackWrongTarget(t) ==
    IF t.status # "Disputed"
    THEN [state |-> t, result |-> InvalidStateTransition(t.status, "Resolved")]
    ELSE [state |-> [t EXCEPT !.status = "Chargeback"], result |-> Ok]

\* Mutant of StateChargeback: the charged-back record's amount is cleared.
StateChargebackClearsAmount(t) ==
    IF t.status # "Disputed"
    THEN [state |-> t, result |-> InvalidStateTransition(t.status, "Chargeback")]
    ELSE [state |-> [t EXCEPT !.amount_base_units = 0, !.status = "Chargeback"],
          result |-> Ok]

\* Mutant of StateChargeback: a Valid record may be charged back as well.
StateChargebackFromValid(t) ==
    IF t.status \notin {"Valid", "Disputed"}
    THEN [state |-> t, result |-> InvalidStateTransition(t.status, "Chargeback")]
    ELSE [state |-> [t EXCEPT !.status = "Chargeback"], result |-> Ok]

StateChargeback(t) ==
    IF t.status # "Disputed"
    THEN [state |-> t, result |-> InvalidStateTransition(t.status, "Chargeback")]
    ELSE [state |-> [t EXCEPT !.status = "Chargeback"], result |-> Ok]

(***************************************************************************)
(* TransactionManager (transaction_manager.rs).  An engine state m is a     *)
(* record [balances, transactions]: two maps, each a function whose domain  *)
(* is the set of keys present.  Every operation yields the engine state     *)
(* after the call and the call's result.                                    *)
(***************************************************************************)
ManagerNew == [balances |-> <<>>, transactions |-> <<>>]

\* self.balances.entry(client_id).or_insert(Balance::new()): the map after
\* the call; the entry is GetBalanceMut(bals, c)[c].
GetBalanceMut(bals, client_id) ==
    IF client_id \in DOMAIN bals THEN bals ELSE bals @@ (client_id :> BalanceNew)

\* HashMap::insert replaces an existing value and the function then panics.
InsertTransaction(txs, t) ==
    [transactions |-> (t.id :> t) @@ txs,
     panic |-> t.id \in DOMAIN txs]

\* Mutant of Deposit: the balance is credited before the duplicate check.
DepositCreditsFirst(m, transaction_id, client_id, amount) ==
    LET new == TransactionStateNew("Deposit", transaction_id, client_id, amount)
    IN IF ~IsOk(new.result)
       THEN [m |-> m, result |-> new.result]
       ELSE LET bals == GetBalanceMut(m.balances, client_id)
                bals2 == [bals EXCEPT ![client_id] = BalanceDeposit(@, amount)]
            IN IF transaction_id \in DOMAIN m.transactions
               THEN [m |-> [m EXCEPT !.balances = bals2],
                     result |-> Err("DuplicateTransaction")]
               ELSE [m |-> [balances |-> bals2,
                            transactions |->
                                InsertTransaction(m.transactions, new.state).transactions],
                     result |-> Ok]

\* Mutant of Deposit: the duplicate check is left out.
DepositNoDuplicateCheck(m, transaction_id, client_id, amount) ==
    LET new == TransactionStateNew("Deposit", transaction_id, client_id, amount)
    IN IF ~IsOk(new.result)
       THEN [m |-> m, result |-> new.result]
       ELSE LET bals == GetBalanceMut(m.balances, client_id)
                bals2 == [bals EXCEPT ![client_id] = BalanceDeposit(@, amount)]
                ins == InsertTransaction(m.transactions, new.state)
            IN [m |-> [balances |-> bals2, transactions |-> ins.transactions],
                result |-> IF ins.panic THEN Err("Panic") ELSE Ok]

Deposit(m, transaction_id, client_id, amount) ==
    IF transaction_id \in DOMAIN m.transactions
    THEN [m |-> m, result |-> Err("DuplicateTransaction")]
    ELSE LET new == TransactionStateNew("Deposit", transaction_id, client_id, amount)
         IN IF ~IsOk(new.result)
            THEN [m |-> m, result |-> new.result]
            ELSE LET bals == GetBalanceMut(m.balances, client_id)
                     bals2 == [bals EXCEPT ![client_id] = BalanceDeposit(@, amount)]
                     ins == InsertTransaction(m.transactions, new.state)
                 IN [m |-> [balances |-> bals2, transactions |-> ins.transactions],
                     result |-> IF ins.panic THEN Err("Panic") ELSE Ok]

\* Mutant of Withdrawal: the record is inserted before the funds are checked.
WithdrawalInsertsFirst(m, transaction_id, client_id, amount) ==
    IF transaction_id \in DOMAIN m.transactions
    THEN [m |-> m, result |-> Err("DuplicateTransaction")]
    ELSE LET new == TransactionStateNew("Withdrawal", transaction_id, client_id, amount)
         IN IF ~IsOk(new.result)
            THEN [m |-> m, result |-> new.result]
            ELSE LET bals == GetBalanceMut(m.balances, client_id)
                     ins == InsertTransaction(m.transactions, new.state)
                     w == BalanceWithdrawal(bals[client_id], amount)
                 IN IF ~IsOk(w.result)
                    THEN [m |-> [balances |-> bals, transactions |-> ins.transactions],
                          result |-> w.result]
                    ELSE [m |-> [balances |-> [bals EXCEPT ![client_id] = w.balance],
                                 transactions |-> ins.transactions],
                          result |-> IF ins.panic THEN Err("Panic") ELSE Ok]

Withdrawal(m, transaction_id, client_id, amount) ==
    IF transaction_id \in DOMAIN m.transactions
    THEN [m |-> m, result |-> Err("DuplicateTransaction")]
    ELSE LET new == TransactionStateNew("Withdrawal", transaction_id, client_id, amount)
         IN IF ~IsOk(new.result)
            THEN [m |-> m, result |-> new.result]
            ELSE LET bals == GetBalanceMut(m.balances, client_id)
                     w == BalanceWithdrawal(bals[client_id], amount)
                 IN IF ~IsOk(w.result)
                    THEN [m |-> [m EXCEPT !.balances = bals], result |-> w.result]
                    ELSE LET bals2 == [bals EXCEPT ![client_id] = w.balance]
                             ins == InsertTransaction(m.transactions, new.state)
                         IN [m |-> [balances |-> bals2,
                                    transactions |-> ins.transactions],
                             result |-> IF ins.panic THEN Err("Panic") ELSE Ok]

\* Mutant of Dispute: the client's balance is fetched (and so created)
\* before the transaction is looked up.
DisputeFetchesBalanceFirst(m, transaction_id, client_id) ==
    LET bals == GetBalanceMut(m.balances, client_id)
    IN IF transaction_id \in DOMAIN m.transactions
       THEN LET disputed_transaction == m.transactions[transaction_id]
            IN IF client_id # disputed_transaction.client_id
               THEN [m |-> m, result |-> Err("DisputeClientMismatch")]
               ELSE LET amount == disputed_transaction.amount_base_units
                        d == StateDispute(disputed_transaction)
                    IN IF ~IsOk(d.result)
                       THEN [m |-> m, result |-> d.result]
                       ELSE [m |-> [balances |->
                                        [bals EXCEPT ![client_id] = BalanceHold(@, amount)],
                                    transactions |->
                                        [m.transactions EXCEPT ![transaction_id] = d.state]],
                             result |-> Ok]
       ELSE [m |-> [m EXCEPT !.balances = bals],
             result |-> Err("DisputedTransactionNotFound")]

Dispute(m, transaction_id, client_id) ==
    IF transaction_id \in DOMAIN m.transactions
    THEN LET disputed_transaction == m.transactions[transaction_id]
         IN IF client_id # disputed_transaction.client_id
            THEN [m |-> m, result |-> Err("DisputeClientMismatch")]
            ELSE LET amount == disputed_transaction.amount_base_units
                     d == StateDispute(disputed_transaction)
                 IN IF ~IsOk(d.result)
                    THEN [m |-> m, result |-> d.result]
                    ELSE LET bals == GetBalanceMut(m.balances, client_id)
                         IN [m |-> [balances |->
                                        [bals EXCEPT ![client_id] = BalanceHold(@, amount)],
                                    transactions |->
                                        [m.transactions EXCEPT ![transaction_id] = d.state]],
                             result |-> Ok]
    ELSE [m |-> m, result |-> Err("DisputedTransactionNotFound")]

\* Mutant of Resolve: the client id of the call is not looked at and the
\* funds are released on the balance of the record's owner.
ResolveReleasesOwner(m, transaction_id, client_id) ==
    IF transaction_id \in DOMAIN m.transactions
    THEN LET disputed_transaction == m.transactions[transaction_id]
             owner == disputed_transaction.client_id
             amount == disputed_transaction.amount_base_units
             d == StateResolve(disputed_transaction)
         IN IF ~IsOk(d.result)
            THEN [m |-> m, result |-> d.result]
            ELSE LET bals == GetBalanceMut(m.balances, owner)
                 IN [m |-> [balances |->
                                [bals EXCEPT ![owner] = BalanceRelease(@, amount)],
                            transactions |->
                                [m.transactions EXCEPT ![transaction_id] = d.state]],
                     result |-> Ok]
    ELSE [m |-> m, result |-> Err("DisputedTransactionNotFound")]

Resolve(m, transaction_id, client_id) ==
    IF transaction_id \in DOMAIN m.transactions
    THEN LET disputed_transaction == m.transactions[transaction_id]
         IN IF client_id # disputed_transaction.client_id
            THEN [m |-> m, result |-> Err("ResolveClientMismatch")]
            ELSE LET amount == disputed_transaction.amount_base_units
                     d == StateResolve(disputed_transaction)
                 IN IF ~IsOk(d.result)
                    THEN [m |-> m, result |-> d.result]
                    ELSE LET bals == GetBalanceMut(m.balances, client_id)
                         IN [m |-> [balances |->
                                        [bals EXCEPT ![client_id] = BalanceRelease(@, amount)],
                                    transactions |->
                                        [m.transactions EXCEPT ![transaction_id] = d.state]],
                             result |-> Ok]
    ELSE [m |-> m, result |-> Err("DisputedTransactionNotFound")]

\* Mutant of Chargeback: the client id is not compared with the owner's.
ChargebackNoClientCheck(m, transaction_id, client_id) ==
    IF transaction_id \in DOMAIN m.transactions
    THEN LET disputed_transaction == m.transactions[transaction_id]
             amount == disputed_transaction.amount_base_units
             d == StateChargeback(disputed_transaction)
         IN IF ~IsOk(d.result)
            THEN [m |-> m, result |-> d.result]
            ELSE LET bals == GetBalanceMut(m.balances, client_id)
                 IN [m |-> [balances |->
                                [bals EXCEPT ![client_id] = BalanceChargeback(@, amount)],
                            transactions |->
                                [m.transactions EXCEPT ![transaction_id] = d.state]],
                     result |-> Ok]
    ELSE [m |-> m, result |-> Err("DisputedTransactionNotFound")]

Chargeback(m, transaction_id, client_id) ==
    IF transaction_id \in DOMAIN m.transactions
    THEN LET disputed_transaction == m.transactions[transaction_id]
         IN IF client_id # disputed_transaction.client_id
            THEN [m |-> m, result |-> Err("ChargebackClientMismatch")]
            ELSE LET amount == disputed_transaction.amount_base_units
                     d == StateChargeback(disputed_transaction)
                 IN IF ~IsOk(d.result)
                    THEN [m |-> m, result |-> d.result]
                    ELSE LET bals == GetBalanceMut(m.balances, client_id)
                         IN [m |-> [balances |->
                                        [bals EXCEPT ![client_id] = BalanceChargeback(@, amount)],
                                    transactions |->
                                        [m.transactions EXCEPT ![transaction_id] = d.state]],
                             result |-> Ok]
    ELSE [m |-> m, result |-> Err("DisputedTransactionNotFound")]

(***************************************************************************)
(* balances() and ClientBalance.  from_base_units divides the base units    *)
(* by 10 000: the decimal value is kept as <<whole, frac>>, standing for    *)
(* whole + frac/10000 with 0 <= frac < 10000.  The Vec that balances()      *)
(* returns is kept as the set of its elements (its order is the HashMap's   *)
(* iteration order).  Like the other operations, Balances yields the        *)
(* engine after the call (it takes &self) and what the call returns.        *)
(***************************************************************************)
BaseUnitsPerUnit == 10000

FromBaseUnits(amount_base_units) ==
    <<amount_base_units \div BaseUnitsPerUnit, amount_base_units % BaseUnitsPerUnit>>

\* Mutant of Balances: held is filled from the balance's total.
BalancesHeldFromTotal(m) ==
    [result |-> {[locked |-> m.balances[c].locked,
                  client_id |-> c,
                  available |-> FromBaseUnits(m.balances[c].available_base_units),
                  held |-> FromBaseUnits(m.balances[c].total_base_units),
                  total |-> FromBaseUnits(m.balances[c].total_base_units)]
                 : c \in DOMAIN m.balances},
     m |-> m]

Balances(m) ==
    [result |-> {[locked |-> m.balances[c].locked,
                  client_id |-> c,
                  available |-> FromBaseUnits(m.balances[c].available_base_units),
                  held |-> FromBaseUnits(m.balances[c].held_base_units),
                  total |-> FromBaseUnits(m.balances[c].total_base_units)]
                 : c \in DOMAIN m.balances},
     m |-> m]

(***************************************************************************)
(* Transaction values (the enum Transaction): the dispute family carries    *)
(* no amount field.  (Records that live in the state list their fields in   *)
(* the order TLC keeps them in, so that no worker ever reorders a record    *)
(* another worker is reading.)                                              *)
(***************************************************************************)
TxDeposit(id, client_id, amount) ==
    [id |-> id, client_id |-> client_id, amount_base_units |-> amount, kind |-> "Deposit"]
TxWithdrawal(id, client_id, amount) ==
    [id |-> id, client_id |-> client_id, amount_base_units |-> amount, kind |-> "Withdrawal"]
TxDispute(id, client_id) == [id |-> id, client_id |-> client_id, kind |-> "Dispute"]
TxResolve(id, client_id) == [id |-> id, client_id |-> client_id, kind |-> "Resolve"]
TxChargeback(id, client_id) == [id |-> id, client_id |-> client_id, kind |-> "Chargeback"]

\* The Transaction values accept is called with.
Transactions ==
    {TxDeposit(id, c, a) : id \in TxIds, c \in ClientIds, a \in Amounts} \cup
    {TxWithdrawal(id, c, a) : id \in TxIds, c \in ClientIds, a \in Amounts} \cup
    {TxDispute(id, c) : id \in TxIds, c \in ClientIds} \cup
    {TxResolve(id, c) : id \in TxIds, c \in ClientIds} \cup
    {TxChargeback(id, c) : id \in TxIds, c \in ClientIds}

Accept(m, transaction) ==
    CASE transaction.kind = "Deposit" ->
            Deposit(m, transaction.id, transaction.client_id, transaction.amount_base_units)
      [] transaction.kind = "Withdrawal" ->
            Withdrawal(m, transaction.id, transaction.client_id, transaction.amount_base_units)
      [] transaction.kind = "Dispute" -> Dispute(m, transaction.id, transaction.client_id)
      [] transaction.kind = "Resolve" -> Resolve(m, transaction.id, transaction.client_id)
      [] transaction.kind = "Chargeback" -> Chargeback(m, transaction.id, transaction.client_id)

\* The engines that some sequence of at most n accept calls yields from a
\* new engine.
RECURSIVE AfterCalls(_)
AfterCalls(n) ==
    IF n = 0
    THEN {ManagerNew}
    ELSE LET before == AfterCalls(n - 1)
         IN before \cup {Accept(m, t).m : m \in before, t \in Transactions}

\* The sum of the stored amounts of the records of txs whose ids are in ids.
RECURSIVE SumAmounts(_, _)
SumAmounts(txs, ids) ==
    IF ids = {}
    THEN 0
    ELSE LET id == CHOOSE i \in ids : TRUE
         IN txs[id].amount_base_units + SumAmounts(txs, ids \ {id})

\* The ids of client_id's records of the given kinds in the given statuses.
RecordsOf(txs, client_id, types, statuses) ==
    {id \in DOMAIN txs : /\ txs[id].client_id = client_id
                          /\ txs[id].transaction_type \in types
                          /\ txs[id].status \in statuses}

Statuses == {"Valid", "Disputed", "Resolved", "Chargeback"}

(***************************************************************************)
(* The record decoder (csv.rs).  A TransactionDto carries order_type,       *)
(* client, tx and amount: Option<f64>, kept as <<>> for None and <<n>> for  *)
(* Some(n / 65536), n an integer.  Every such amount is an f64 (65536 is    *)
(* 2^16), written in the input as its finite decimal expansion, and its     *)
(* product with 10_000.0 is an f64 as well, so the multiplication of        *)
(* to_base_units is exact: (amount * 10_000.0).round() is n * 10000 / 65536 *)
(* rounded to the nearest integer, halves away from zero.                   *)
(***************************************************************************)
\* Some(-0.00006103515625), Some(0.0000457763671875), Some(0.00006103515625),
\* Some(0.03125): -0.61, 0.46, 0.61 and 312.5 base units before rounding.
DtoAmounts == {-4, 3, 4, 2048}

Dto(order_type, client, tx, amount) ==
    [amount |-> amount, order_type |-> order_type, client |-> client, tx |-> tx]

\* |n| * 10000 / 65536 is split into its part from the whole units of n and
\* the rest, so that no intermediate value leaves the 32-bit integers.
ToBaseUnits(n) ==
    LET abs == IF n >= 0 THEN n ELSE -n
        rounded == (abs \div 65536) * 10000
                       + ((abs % 65536) * 20000 + 65536) \div 131072
    IN IF n >= 0 THEN rounded ELSE -rounded

\* Mutant of ToTransaction: only negative amounts are refused (< for <=).
ToTransactionAllowsZero(d) ==
    IF d.order_type \in {"deposit", "withdrawal"}
    THEN IF d.amount = <<>>
         THEN [result |-> Err("MissingAmount"), transaction |-> <<>>]
         ELSE LET amount_base_units == ToBaseUnits(d.amount[1])
              IN IF amount_base_units < 0
                 THEN [result |-> Err("InvalidAmount"), transaction |-> <<>>]
                 ELSE [result |-> Ok,
                       transaction |->
                           IF d.order_type = "deposit"
                           THEN TxDeposit(d.tx, d.client, amount_base_units)
                           ELSE TxWithdrawal(d.tx, d.client, amount_base_units)]
    ELSE [result |-> Ok,
          transaction |->
              CASE d.order_type = "dispute" -> TxDispute(d.tx, d.client)
                [] d.order_type = "resolve" -> TxResolve(d.tx, d.client)
                [] d.order_type = "chargeback" -> TxChargeback(d.tx, d.client)]

\* Result<Transaction, CsvError>.
ToTransaction(d) ==
    IF d.order_type \in {"deposit", "withdrawal"}
    THEN IF d.amount = <<>>
         THEN [result |-> Err("MissingAmount"), transaction |-> <<>>]
         ELSE LET amount_base_units == ToBaseUnits(d.amount[1])
              IN IF amount_base_units <= 0
                 THEN [result |-> Err("InvalidAmount"), transaction |-> <<>>]
                 ELSE [result |-> Ok,
                       transaction |->
                           IF d.order_type = "deposit"
                           THEN TxDeposit(d.tx, d.client, amount_base_units)
                           ELSE TxWithdrawal(d.tx, d.client, amount_base_units)]
    ELSE [result |-> Ok,
          transaction |->
              CASE d.order_type = "dispute" -> TxDispute(d.tx, d.client)
                [] d.order_type = "resolve" -> TxResolve(d.tx, d.client)
                [] d.order_type = "chargeback" -> TxChargeback(d.tx, d.client)]

(***************************************************************************)
(* The state machine.  balances and transactions are the engine's two maps. *)
(* The driver (main.rs) feeds one Transaction at a time to accept and then  *)
(* consumes the result before it takes the next record:                     *)
(*   pc = "next"     at the head of the loop, no call in progress;          *)
(*   pc = "snapshot" balances() has returned its snapshot in result;        *)
(*   pc = "accepted" accept has returned: last is the Transaction value it  *)
(*                   was given, result what it returned and pre the engine  *)
(*                   state the call started from.                           *)
(* Under SpecMain the driver reads its records from the decoder's stream:   *)
(* dto is the TransactionDto of the record in hand, and                     *)
(*   pc = "skipped"  to_transaction failed: result is the CsvError;         *)
(*   pc = "aborted"  the stream yielded an error and main returned it;      *)
(*   pc = "printed"  the input ended and the balances table was printed.    *)
(***************************************************************************)
VARIABLES balances, transactions, pc, pre, last, result, dto

vars == <<balances, transactions, pc, pre, last, result, dto>>

NoTransaction == [id |-> 0, client_id |-> 0, kind |-> "None"]

NoDto == [amount |-> <<>>, order_type |-> "none", client |-> 0, tx |-> 0]

Manager == [balances |-> balances, transactions |-> transactions]

Init ==
    /\ balances = ManagerNew.balances
    /\ transactions = ManagerNew.transactions
    /\ pc = "next"
    /\ pre = ManagerNew
    /\ last = NoTransaction
    /\ result = Ok
    /\ dto = NoDto

\* One call manager.accept(transaction), run to completion; the driver
\* makes it from the head of its loop (pc = "next").
Call(transaction) ==
    /\ LET r == Accept(Manager, transaction)
       IN /\ balances' = r.m.balances
          /\ transactions' = r.m.transactions
          /\ result' = r.result
    /\ pre' = Manager
    /\ last' = transaction
    /\ pc' = "accepted"

AcceptDeposit ==
    /\ pc = "next"
    /\ \E id \in TxIds, c \in ClientIds, a \in Amounts : Call(TxDeposit(id, c, a))
    /\ UNCHANGED dto

AcceptWithdrawal ==
    /\ pc = "next"
    /\ \E id \in TxIds, c \in ClientIds, a \in Amounts : Call(TxWithdrawal(id, c, a))
    /\ UNCHANGED dto

AcceptDispute ==
    /\ pc = "next"
    /\ \E id \in TxIds, c \in ClientIds : Call(TxDispute(id, c))
    /\ UNCHANGED dto

AcceptResolve ==
    /\ pc = "next"
    /\ \E id \in TxIds, c \in ClientIds : Call(TxResolve(id, c))
    /\ UNCHANGED dto

AcceptChargeback ==
    /\ pc = "next"
    /\ \E id \in TxIds, c \in ClientIds : Call(TxChargeback(id, c))
    /\ UNCHANGED dto

\* One call manager.balances(), at any time no accept call is in progress
\* (also right after another balances()): pc = "snapshot" and result holds
\* the snapshot it returned.
CallBalances ==
    /\ pc \in {"next", "snapshot"}
    /\ LET r == Balances(Manager)
       IN /\ balances' = r.m.balances
          /\ transactions' = r.m.transactions
          /\ result' = <<"Balances", r.result>>
    /\ pre' = Manager
    /\ last' = NoTransaction
    /\ pc' = "snapshot"
    /\ UNCHANGED dto

\* The result of the call is consumed (an error is logged) and the loop goes
\* on to the next record.  A panic in accept ends the process instead.
Continue ==
    /\ pc \in {"accepted", "snapshot", "skipped"}
    /\ result # Err("Panic")
    /\ pc' = "next"
    /\ pre' = Manager
    /\ last' = NoTransaction
    /\ result' = Ok
    /\ dto' = NoDto
    /\ UNCHANGED <<balances, transactions>>

Next ==
    \/ AcceptDeposit
    \/ AcceptWithdrawal
    \/ AcceptDispute
    \/ AcceptResolve
    \/ AcceptChargeback
    \/ CallBalances
    \/ Continue

Spec == Init /\ [][Next]_vars

(***************************************************************************)
(* The driver (main.rs) on the decoder's stream.                            *)
(***************************************************************************)
\* The stream yields Ok(d): d is decoded and, when that succeeds, handed to
\* accept; a decode error is the result the driver logs.
Record(d) ==
    /\ dto' = d
    /\ LET t == ToTransaction(d)
       IN IF IsOk(t.result)
          THEN Call(t.transaction)
          ELSE /\ pc' = "skipped"
               /\ result' = t.result
               /\ pre' = Manager
               /\ last' = NoTransaction
               /\ UNCHANGED <<balances, transactions>>

ReadDeposit ==
    /\ pc = "next"
    /\ \E c \in ClientIds, id \in TxIds, a \in {<<>>} \cup {<<n>> : n \in DtoAmounts} :
        Record(Dto("deposit", c, id, a))

ReadWithdrawal ==
    /\ pc = "next"
    /\ \E c \in ClientIds, id \in TxIds, a \in {<<>>} \cup {<<n>> : n \in DtoAmounts} :
        Record(Dto("withdrawal", c, id, a))

\* The amount column of a dispute, resolve or chargeback row is normally
\* empty, but nothing stops a row from carrying one.
ReadDispute ==
    /\ pc = "next"
    /\ \E c \in ClientIds, id \in TxIds, a \in {<<>>, <<2048>>} :
        Record(Dto("dispute", c, id, a))

ReadResolve ==
    /\ pc = "next"
    /\ \E c \in ClientIds, id \in TxIds, a \in {<<>>, <<2048>>} :
        Record(Dto("resolve", c, id, a))

ReadChargeback ==
    /\ pc = "next"
    /\ \E c \in ClientIds, id \in TxIds, a \in {<<>>, <<2048>>} :
        Record(Dto("chargeback", c, id, a))

\* The stream yields Err: the row could not be deserialized into a
\* TransactionDto (read_transactions' `transaction?`).  main's `result?`
\* returns the error: the run ends without printing the balances.
ReadMalformed ==
    /\ pc = "next"
    /\ pc' = "aborted"
    /\ result' = Err("DeserializeError")
    /\ pre' = Manager
    /\ UNCHANGED <<balances, transactions, last, dto>>

\* The stream yields None: the loop ends, balances() is taken and printed.
EndOfInput ==
    /\ pc = "next"
    /\ LET r == Balances(Manager)
       IN /\ balances' = r.m.balances
          /\ transactions' = r.m.transactions
          /\ result' = <<"Balances", r.result>>
    /\ pc' = "printed"
    /\ pre' = Manager
    /\ UNCHANGED <<last, dto>>

NextMain ==
    \/ ReadDeposit
    \/ ReadWithdrawal
    \/ ReadDispute
    \/ ReadResolve
    \/ ReadChargeback
    \/ ReadMalformed
    \/ EndOfInput
    \/ Continue

SpecMain == Init /\ [][NextMain]_vars

TypeOK ==
    /\ DOMAIN balances \subseteq ClientIds
    /\ DOMAIN transactions \subseteq TxIds
    /\ \A id \in DOMAIN transactions : transactions[id].id = id
    /\ pc \in {"next", "accepted", "snapshot", "skipped", "aborted", "printed"}

(***************************************************************************)
(* C1.  In every reachable state every client balance satisfies             *)
(* total = available + held, also right after a chargeback and when         *)
(* available is negative.                                                   *)
(***************************************************************************)
C1_TotalIsAvailablePlusHeld ==
    \A c \in DOMAIN balances :
        balances[c].total_base_units =
            balances[c].available_base_units + balances[c].held_base_units

\* A chargeback has just been applied to a client whose available is negative.
C1_Witness ==
    /\ pc = "accepted"
    /\ last.kind = "Chargeback"
    /\ result = Ok
    /\ balances[last.client_id].available_base_units < 0

(***************************************************************************)
(* C2.  A record starts Valid; the only status changes that ever occur are  *)
(* Valid->Disputed, Disputed->Resolved and Disputed->Chargeback, so a       *)
(* record in Resolved or Chargeback never changes status again.             *)
(***************************************************************************)
C2_StatusSteps ==
    [][/\ \A id \in DOMAIN transactions' \ DOMAIN transactions :
              transactions'[id].status = "Valid"
       /\ \A id \in DOMAIN transactions :
              /\ id \in DOMAIN transactions'
              /\ \/ transactions'[id].status = transactions[id].status
                 \/ <<transactions[id].status, transactions'[id].status>> \in
                        {<<"Valid", "Disputed">>,
                         <<"Disputed", "Resolved">>,
                         <<"Disputed", "Chargeback">>}]_vars

\* A dispute, resolve or chargeback with the owner's client id has just been
\* attempted on a record that had already reached Resolved or Chargeback.
C2_Witness ==
    /\ pc = "accepted"
    /\ last.kind \in {"Dispute", "Resolve", "Chargeback"}
    /\ last.id \in DOMAIN pre.transactions
    /\ pre.transactions[last.id].client_id = last.client_id
    /\ pre.transactions[last.id].status \in {"Resolved", "Chargeback"}

(***************************************************************************)
(* C3.  A deposit or withdrawal whose id is already a key of the            *)
(* transaction map returns DuplicateTransaction and changes neither the     *)
(* transaction map nor any balance.                                         *)
(***************************************************************************)
C3_DuplicateRejected ==
    (/\ pc = "accepted"
     /\ last.kind \in {"Deposit", "Withdrawal"}
     /\ last.id \in DOMAIN pre.transactions)
    => /\ result = Err("DuplicateTransaction")
       /\ transactions = pre.transactions
       /\ balances = pre.balances

\* A valid deposit reused the id of a record of the other kind, of another
\* client and no longer in status Valid.
C3_Witness ==
    /\ pc = "accepted"
    /\ last.kind = "Withdrawal"
    /\ last.id \in DOMAIN pre.transactions
    /\ last.amount_base_units > 0
    /\ pre.transactions[last.id].transaction_type = "Deposit"
    /\ pre.transactions[last.id].client_id # last.client_id
    /\ pre.transactions[last.id].status # "Valid"
    /\ result = Err("DuplicateTransaction")

(***************************************************************************)
(* C4 as first stated.  A withdrawal with a fresh id and an amount greater  *)
(* than the client's available returns InsufficientFunds, creates no        *)
(* record and leaves the client's four balance fields as they were (those   *)
(* of a new balance when the client had none); when available >= amount it  *)
(* succeeds, available and total each drop by amount, held and locked stay  *)
(* and a Valid Withdrawal record is stored.  This is the statement for      *)
(* every amount, a negative one included.                                   *)
(***************************************************************************)
C4_Original ==
    (/\ pc = "accepted"
     /\ last.kind = "Withdrawal"
     /\ last.id \notin DOMAIN pre.transactions)
    => LET c == last.client_id
           amount == last.amount_base_units
           before == IF c \in DOMAIN pre.balances THEN pre.balances[c] ELSE BalanceNew
       IN IF amount > before.available_base_units
          THEN /\ result = Err("InsufficientFunds")
               /\ transactions = pre.transactions
               /\ balances[c] = before
          ELSE /\ result = Ok
               /\ balances[c] =
                      [before EXCEPT !.available_base_units = @ - amount,
                                     !.total_base_units = @ - amount]
               /\ DOMAIN transactions = DOMAIN pre.transactions \cup {last.id}
               /\ transactions[last.id] =
                      [transaction_type |-> "Withdrawal", id |-> last.id,
                       client_id |-> c, amount_base_units |-> amount,
                       status |-> "Valid"]

(***************************************************************************)
(* C4, amended.  The same statement for withdrawals whose amount is not     *)
(* negative (a negative amount is rejected with AmountIsNegative before     *)
(* the balance is looked at).                                               *)
(***************************************************************************)
C4_WithdrawalFundsCheck ==
    (/\ pc = "accepted"
     /\ last.kind = "Withdrawal"
     /\ last.id \notin DOMAIN pre.transactions
     /\ last.amount_base_units >= 0)
    => LET c == last.client_id
           amount == last.amount_base_units
           before == IF c \in DOMAIN pre.balances THEN pre.balances[c] ELSE BalanceNew
       IN IF amount > before.available_base_units
          THEN /\ result = Err("InsufficientFunds")
               /\ transactions = pre.transactions
               /\ balances[c] = before
          ELSE /\ result = Ok
               /\ balances[c] =
                      [before EXCEPT !.available_base_units = @ - amount,
                                     !.total_base_units = @ - amount]
               /\ DOMAIN transactions = DOMAIN pre.transactions \cup {last.id}
               /\ transactions[last.id] =
                      [transaction_type |-> "Withdrawal", id |-> last.id,
                       client_id |-> c, amount_base_units |-> amount,
                       status |-> "Valid"]

\* A withdrawal of exactly the client's positive available has just succeeded.
C4_Witness ==
    /\ pc = "accepted"
    /\ last.kind = "Withdrawal"
    /\ last.id \notin DOMAIN pre.transactions
    /\ last.client_id \in DOMAIN pre.balances
    /\ last.amount_base_units > 0
    /\ last.amount_base_units = pre.balances[last.client_id].available_base_units
    /\ result = Ok

(***************************************************************************)
(* C5.  A dispute naming a Valid Deposit record with the record's own       *)
(* client id always succeeds: the record becomes Disputed, the owner's      *)
(* available drops by the stored amount, held rises by it, total and        *)
(* locked stay, even when available becomes negative.                       *)
(***************************************************************************)
C5_DisputeHolds ==
    (/\ pc = "accepted"
     /\ last.kind = "Dispute"
     /\ last.id \in DOMAIN pre.transactions
     /\ pre.transactions[last.id].transaction_type = "Deposit"
     /\ pre.transactions[last.id].status = "Valid"
     /\ pre.transactions[last.id].client_id = last.client_id)
    => LET c == last.client_id
           amount == pre.transactions[last.id].amount_base_units
       IN /\ result = Ok
          /\ transactions[last.id].status = "Disputed"
          /\ c \in DOMAIN pre.balances
          /\ balances[c].available_base_units =
                 pre.balances[c].available_base_units - amount
          /\ balances[c].held_base_units = pre.balances[c].held_base_units + amount
          /\ balances[c].total_base_units = pre.balances[c].total_base_units
          /\ balances[c].locked = pre.balances[c].locked

\* A dispute has just made the owner's available negative.
C5_Witness ==
    /\ pc = "accepted"
    /\ last.kind = "Dispute"
    /\ result = Ok
    /\ pre.balances[last.client_id].available_base_units >= 0
    /\ balances[last.client_id].available_base_units < 0

(***************************************************************************)
(* C6.  Dispute followed directly by resolve of the same deposit, both      *)
(* with the owner's client id, is a round trip on the balance: after the    *)
(* resolve the owner's available, held, total and locked are what they      *)
(* were before the dispute, and the record is Resolved.  Stated in the      *)
(* state a successful dispute returns in, about the resolve that follows.   *)
(***************************************************************************)
C6_DisputeResolveRoundTrip ==
    (/\ pc = "accepted"
     /\ last.kind = "Dispute"
     /\ result = Ok)
    => LET r == Accept(Manager, TxResolve(last.id, last.client_id))
       IN /\ r.result = Ok
          /\ r.m.balances[last.client_id] = pre.balances[last.client_id]
          /\ r.m.balances = pre.balances
          /\ r.m.transactions[last.id].status = "Resolved"

\* A dispute of a deposit of a positive amount has just succeeded on a
\* balance that had less available than the deposit's amount.
C6_Witness ==
    /\ pc = "accepted"
    /\ last.kind = "Dispute"
    /\ result = Ok
    /\ pre.transactions[last.id].amount_base_units > 0
    /\ pre.balances[last.client_id].available_base_units <
           pre.transactions[last.id].amount_base_units
    /\ Accept(Manager, TxResolve(last.id, last.client_id)).m.balances = pre.balances

(***************************************************************************)
(* C7.  A chargeback naming a Disputed record with the record's own client  *)
(* id succeeds: the record becomes Chargeback, the owner's total and held   *)
(* each drop by the stored amount, available stays and locked is true.      *)
(***************************************************************************)
C7_ChargebackEffect ==
    (/\ pc = "accepted"
     /\ last.kind = "Chargeback"
     /\ last.id \in DOMAIN pre.transactions
     /\ pre.transactions[last.id].status = "Disputed"
     /\ pre.transactions[last.id].client_id = last.client_id)
    => LET c == last.client_id
           amount == pre.transactions[last.id].amount_base_units
       IN /\ result = Ok
          /\ transactions[last.id].status = "Chargeback"
          /\ c \in DOMAIN pre.balances
          /\ balances[c].total_base_units = pre.balances[c].total_base_units - amount
          /\ balances[c].held_base_units = pre.balances[c].held_base_units - amount
          /\ balances[c].available_base_units = pre.balances[c].available_base_units
          /\ balances[c].locked = TRUE

\* A chargeback of a positive amount has just locked a client that was not
\* locked before.
C7_Witness ==
    /\ pc = "accepted"
    /\ last.kind = "Chargeback"
    /\ result = Ok
    /\ pre.transactions[last.id].amount_base_units > 0
    /\ ~pre.balances[last.client_id].locked
    /\ balances[last.client_id].locked

(***************************************************************************)
(* C8.  From an empty engine, deposit(tx=1, client=1, 100),                 *)
(* withdrawal(tx=2, client=1, 50), dispute(tx=1, client=1),                 *)
(* chargeback(tx=1, client=1) are accepted one after the other and give     *)
(* available=-50, held=100, total=50 after the dispute and available=-50,   *)
(* held=0, total=-50, locked=true after the chargeback.  Each conjunct is   *)
(* one call of the sequence, started in the state the calls before it       *)
(* produce.                                                                 *)
(***************************************************************************)
C8_NegativeBalanceScenario ==
    LET bal(a, h, t, l) ==
            [available_base_units |-> a, held_base_units |-> h,
             total_base_units |-> t, locked |-> l]
        rec(type, id, amount, status) ==
            [transaction_type |-> type, id |-> id, client_id |-> 1,
             amount_base_units |-> amount, status |-> status]
        state(b, s) ==
            [balances |-> (1 :> b),
             transactions |-> (1 :> rec("Deposit", 1, 100, s)) @@
                              (2 :> rec("Withdrawal", 2, 50, "Valid"))]
        s1 == [balances |-> (1 :> bal(100, 0, 100, FALSE)),
               transactions |-> (1 :> rec("Deposit", 1, 100, "Valid"))]
        s2 == state(bal(50, 0, 50, FALSE), "Valid")
        s3 == state(bal(-50, 100, 50, FALSE), "Disputed")
        s4 == state(bal(-50, 0, -50, TRUE), "Chargeback")
    IN pc = "accepted" =>
        /\ (DOMAIN pre.transactions = {} /\ DOMAIN pre.balances = {}
            /\ last = TxDeposit(1, 1, 100))
               => (result = Ok /\ Manager = s1)
        /\ (pre = s1 /\ last = TxWithdrawal(2, 1, 50))
               => (result = Ok /\ Manager = s2)
        /\ (pre = s2 /\ last = TxDispute(1, 1))
               => (result = Ok /\ Manager = s3)
        /\ (pre = s3 /\ last = TxChargeback(1, 1))
               => (result = Ok /\ Manager = s4)

\* The last call of the sequence has returned: the chargeback of deposit 1
\* on the balance the first three calls leave.
C8_Witness ==
    /\ pc = "accepted"
    /\ last = TxChargeback(1, 1)
    /\ DOMAIN pre.transactions = {1, 2}
    /\ DOMAIN pre.balances = {1}
    /\ pre.transactions[2].transaction_type = "Withdrawal"
    /\ pre.transactions[2].amount_base_units = 50
    /\ pre.transactions[1].amount_base_units = 100
    /\ pre.balances[1].available_base_units = -50
    /\ pre.balances[1].held_base_units = 100
    /\ result = Ok
    /\ balances[1].total_base_units = -50

(***************************************************************************)
(* C9.  A dispute, resolve or chargeback naming an existing record with a   *)
(* client id other than the record's owner returns DisputeClientMismatch,   *)
(* ResolveClientMismatch or ChargebackClientMismatch, whatever the          *)
(* record's kind and status, and changes no record and no balance.          *)
(***************************************************************************)
C9_ClientMismatch ==
    (/\ pc = "accepted"
     /\ last.kind \in {"Dispute", "Resolve", "Chargeback"}
     /\ last.id \in DOMAIN pre.transactions
     /\ pre.transactions[last.id].client_id # last.client_id)
    => /\ result = CASE last.kind = "Dispute" -> Err("DisputeClientMismatch")
                     [] last.kind = "Resolve" -> Err("ResolveClientMismatch")
                     [] last.kind = "Chargeback" -> Err("ChargebackClientMismatch")
       /\ transactions = pre.transactions
       /\ balances = pre.balances

\* Another client has just tried to charge back a record that is Disputed,
\* a call that succeeds when the owner makes it.
C9_Witness ==
    /\ pc = "accepted"
    /\ last.kind = "Chargeback"
    /\ last.id \in DOMAIN pre.transactions
    /\ pre.transactions[last.id].client_id # last.client_id
    /\ pre.transactions[last.id].status = "Disputed"
    /\ result = Err("ChargebackClientMismatch")

(***************************************************************************)
(* C10.  A dispute, resolve or chargeback whose id is not a key of the      *)
(* transaction map returns DisputedTransactionNotFound and leaves both      *)
(* maps as they were: no balance entry is created for the client named.     *)
(***************************************************************************)
C10_NotFound ==
    (/\ pc = "accepted"
     /\ last.kind \in {"Dispute", "Resolve", "Chargeback"}
     /\ last.id \notin DOMAIN pre.transactions)
    => /\ result = Err("DisputedTransactionNotFound")
       /\ transactions = pre.transactions
       /\ balances = pre.balances
       /\ DOMAIN balances = DOMAIN pre.balances

\* A resolve of an unknown id has just been rejected; it named a client
\* that has no balance entry, while another record and balance exist.
C10_Witness ==
    /\ pc = "accepted"
    /\ last.kind = "Resolve"
    /\ last.id \notin DOMAIN pre.transactions
    /\ last.client_id \notin DOMAIN pre.balances
    /\ DOMAIN pre.transactions # {}
    /\ result = Err("DisputedTransactionNotFound")

(***************************************************************************)
(* C11.  A dispute with the matching client id against a Withdrawal record  *)
(* returns DisputeWithdrawalNotSupported and changes nothing; so every      *)
(* Withdrawal record is Valid in every reachable state.                     *)
(***************************************************************************)
C11_WithdrawalNeverDisputed ==
    /\ \A id \in DOMAIN transactions :
           transactions[id].transaction_type = "Withdrawal"
               => transactions[id].status = "Valid"
    /\ (/\ pc = "accepted"
        /\ last.kind = "Dispute"
        /\ last.id \in DOMAIN pre.transactions
        /\ pre.transactions[last.id].client_id = last.client_id
        /\ pre.transactions[last.id].transaction_type = "Withdrawal")
       => /\ result = Err("DisputeWithdrawalNotSupported")
          /\ transactions = pre.transactions
          /\ balances = pre.balances

\* The owner has just disputed a withdrawal of a positive amount.
C11_Witness ==
    /\ pc = "accepted"
    /\ last.kind = "Dispute"
    /\ last.id \in DOMAIN pre.transactions
    /\ pre.transactions[last.id].client_id = last.client_id
    /\ pre.transactions[last.id].transaction_type = "Withdrawal"
    /\ pre.transactions[last.id].amount_base_units > 0
    /\ result = Err("DisputeWithdrawalNotSupported")

(***************************************************************************)
(* C12.  With a matching client id, a dispute on a Deposit record that is   *)
(* not Valid, and a resolve or chargeback on a record that is not           *)
(* Disputed, return InvalidStateTransition(current status, target) with     *)
(* target Disputed, Resolved or Chargeback, and leave the record's status   *)
(* and all balances as they were.                                           *)
(***************************************************************************)
C12_InvalidTransition ==
    (/\ pc = "accepted"
     /\ last.kind \in {"Dispute", "Resolve", "Chargeback"}
     /\ last.id \in DOMAIN pre.transactions
     /\ pre.transactions[last.id].client_id = last.client_id
     /\ \/ /\ last.kind = "Dispute"
           /\ pre.transactions[last.id].transaction_type = "Deposit"
           /\ pre.transactions[last.id].status # "Valid"
        \/ /\ last.kind \in {"Resolve", "Chargeback"}
           /\ pre.transactions[last.id].status # "Disputed")
    => /\ result =
              InvalidStateTransition(
                  pre.transactions[last.id].status,
                  CASE last.kind = "Dispute" -> "Disputed"
                    [] last.kind = "Resolve" -> "Resolved"
                    [] last.kind = "Chargeback" -> "Chargeback")
       /\ transactions = pre.transactions
       /\ balances = pre.balances

\* The owner has just tried to charge back a record that was already
\* resolved.
C12_Witness ==
    /\ pc = "accepted"
    /\ last.kind = "Chargeback"
    /\ last.id \in DOMAIN pre.transactions
    /\ pre.transactions[last.id].client_id = last.client_id
    /\ pre.transactions[last.id].status = "Resolved"
    /\ result = InvalidStateTransition("Resolved", "Chargeback")

(***************************************************************************)
(* C13.  A client's locked flag is false when the balance is created,       *)
(* turns true only in a successful chargeback of a record of that client,   *)
(* and once true is never false again.  Stated over every call: pre is the  *)
(* engine before the call, balances the map after it.                       *)
(***************************************************************************)
C13_LockedOnlyByChargeback ==
    \A c \in DOMAIN balances :
        IF c \notin DOMAIN pre.balances
        THEN ~balances[c].locked
        ELSE /\ pre.balances[c].locked => balances[c].locked
             /\ (~pre.balances[c].locked /\ balances[c].locked)
                    => /\ pc = "accepted"
                       /\ last.kind = "Chargeback"
                       /\ result = Ok
                       /\ last.client_id = c
                       /\ pre.transactions[last.id].client_id = c

\* A locked client has just had another of its disputes resolved, and is
\* still locked.
C13_Witness ==
    /\ pc = "accepted"
    /\ last.kind = "Resolve"
    /\ result = Ok
    /\ pre.balances[last.client_id].locked
    /\ balances[last.client_id].locked

(***************************************************************************)
(* C14.  Locking has no enforcement effect: for the engine and the engine   *)
(* with one client's locked flag flipped, every accept call returns the     *)
(* same result, leaves the same transaction records, and leaves the same    *)
(* available, held and total for every client (and the same locked flag     *)
(* for every other client).                                                 *)
(***************************************************************************)
C14_LockedNotEnforced ==
    pc = "next" =>
        \A c \in DOMAIN balances :
            LET flipped == [Manager EXCEPT !.balances[c].locked = ~@]
            IN \A t \in Transactions :
                   LET r1 == Accept(Manager, t)
                       r2 == Accept(flipped, t)
                   IN /\ r1.result = r2.result
                      /\ r1.m.transactions = r2.m.transactions
                      /\ DOMAIN r1.m.balances = DOMAIN r2.m.balances
                      /\ \A d \in DOMAIN r1.m.balances :
                             /\ r1.m.balances[d].available_base_units =
                                    r2.m.balances[d].available_base_units
                             /\ r1.m.balances[d].held_base_units =
                                    r2.m.balances[d].held_base_units
                             /\ r1.m.balances[d].total_base_units =
                                    r2.m.balances[d].total_base_units
                             /\ d # c => r1.m.balances[d].locked = r2.m.balances[d].locked

\* A deposit of a positive amount to a locked client has just been applied
\* and recorded.
C14_Witness ==
    /\ pc = "accepted"
    /\ last.kind = "Deposit"
    /\ result = Ok
    /\ last.amount_base_units > 0
    /\ last.client_id \in DOMAIN pre.balances
    /\ pre.balances[last.client_id].locked
    /\ last.id \in DOMAIN transactions
    /\ balances[last.client_id].available_base_units =
           pre.balances[last.client_id].available_base_units + last.amount_base_units

(***************************************************************************)
(* C15.  A single bad input record never aborts the run: whatever the       *)
(* records read so far (malformed, failing to decode, rejected by the       *)
(* engine), the driver is never in the state where it has returned the      *)
(* stream's error without printing the balances.                            *)
(* Violated: a row that cannot be deserialized makes the stream yield Err,  *)
(* and main's `result?` returns it.                                         *)
(***************************************************************************)
C15_NeverAborts ==
    pc # "aborted"

(***************************************************************************)
(* C16.  In the decode-then-accept pipeline a deposit or withdrawal record  *)
(* with no amount yields MissingAmount, and one whose amount converts to    *)
(* base units <= 0 yields InvalidAmount; neither reaches accept (the engine *)
(* is as it was); every Deposit or Withdrawal that accept received has      *)
(* amount_base_units > 0; and a dispute, resolve or chargeback record is    *)
(* decoded to a value of its kind, with the record's ids and no amount,     *)
(* even when the row carries one.                                           *)
(***************************************************************************)
C16_DecoderGuards ==
    /\ (dto.order_type \in {"deposit", "withdrawal"} /\ dto.amount = <<>>)
       => /\ pc = "skipped"
          /\ result = Err("MissingAmount")
          /\ Manager = pre
    /\ (/\ dto.order_type \in {"deposit", "withdrawal"}
        /\ dto.amount # <<>>
        /\ ToBaseUnits(dto.amount[1]) <= 0)
       => /\ pc = "skipped"
          /\ result = Err("InvalidAmount")
          /\ Manager = pre
    /\ (pc = "accepted" /\ last.kind \in {"Deposit", "Withdrawal"})
       => /\ last.amount_base_units > 0
          /\ dto.order_type = IF last.kind = "Deposit" THEN "deposit" ELSE "withdrawal"
    /\ dto.order_type \in {"dispute", "resolve", "chargeback"}
       => /\ pc = "accepted"
          /\ DOMAIN last = {"id", "client_id", "kind"}
          /\ last.id = dto.tx
          /\ last.client_id = dto.client
          /\ last.kind = CASE dto.order_type = "dispute" -> "Dispute"
                           [] dto.order_type = "resolve" -> "Resolve"
                           [] dto.order_type = "chargeback" -> "Chargeback"

\* A deposit of 3/65536, which rounds to 0 base units, has just been refused
\* by the decoder while the engine holds a record and a balance.
C16_Witness ==
    /\ pc = "skipped"
    /\ dto.order_type = "deposit"
    /\ dto.amount = <<3>>
    /\ result = Err("InvalidAmount")
    /\ DOMAIN transactions # {}
    /\ Manager = pre

(***************************************************************************)
(* C17.  accept of a Deposit or Withdrawal with a fresh id and a negative   *)
(* amount returns AmountIsNegative, creates no record and changes no        *)
(* balance (nor creates one).                                               *)
(***************************************************************************)
C17_NegativeAmountRejected ==
    (/\ pc = "accepted"
     /\ last.kind \in {"Deposit", "Withdrawal"}
     /\ last.id \notin DOMAIN pre.transactions
     /\ last.amount_base_units < 0)
    => /\ result = Err("AmountIsNegative")
       /\ transactions = pre.transactions
       /\ balances = pre.balances

\* A negative deposit has just been rejected for a client that has a
\* balance and a record already.
C17_Witness ==
    /\ pc = "accepted"
    /\ last.kind = "Deposit"
    /\ last.id \notin DOMAIN pre.transactions
    /\ last.amount_base_units < 0
    /\ last.client_id \in DOMAIN pre.balances
    /\ DOMAIN pre.transactions # {}
    /\ result = Err("AmountIsNegative")

(***************************************************************************)
(* C18.  The engine only ever holds validated positive amounts: after any   *)
(* sequence of accept calls every record stored in the transaction map has  *)
(* a strictly positive amount.                                              *)
(* Violated: TransactionState::new refuses amount < 0 only, so accept of a  *)
(* Deposit or Withdrawal of amount 0 stores a record of amount 0.           *)
(***************************************************************************)
C18_StoredAmountsPositive ==
    \A id \in DOMAIN transactions : transactions[id].amount_base_units > 0

(***************************************************************************)
(* C20.  A record, once created, is never deleted and its id, client id,    *)
(* kind and amount never change: only its status does.  The amount a        *)
(* successful dispute, resolve or chargeback applies to the owner's         *)
(* balance is the amount stored on the record.                              *)
(***************************************************************************)
C20_RecordImmutable ==
    pc = "accepted" =>
        /\ \A id \in DOMAIN pre.transactions :
               /\ id \in DOMAIN transactions
               /\ [transactions[id] EXCEPT !.status = pre.transactions[id].status]
                      = pre.transactions[id]
        /\ (last.kind \in {"Dispute", "Resolve", "Chargeback"} /\ result = Ok)
               => LET stored == pre.transactions[last.id].amount_base_units
                      b0 == pre.balances[last.client_id]
                      b1 == balances[last.client_id]
                  IN CASE last.kind = "Dispute" ->
                              b1 = [b0 EXCEPT !.available_base_units = @ - stored,
                                              !.held_base_units = @ + stored]
                       [] last.kind = "Resolve" ->
                              b1 = [b0 EXCEPT !.available_base_units = @ + stored,
                                              !.held_base_units = @ - stored]
                       [] last.kind = "Chargeback" ->
                              b1 = [b0 EXCEPT !.total_base_units = @ - stored,
                                              !.held_base_units = @ - stored,
                                              !.locked = TRUE]

\* A chargeback of a positive stored amount has just been applied while
\* another record exists.
C20_Witness ==
    /\ pc = "accepted"
    /\ last.kind = "Chargeback"
    /\ result = Ok
    /\ pre.transactions[last.id].amount_base_units > 0
    /\ transactions[last.id].amount_base_units = pre.transactions[last.id].amount_base_units
    /\ DOMAIN transactions # {last.id}

(***************************************************************************)
(* C19.  balances() is a pure read: it changes neither map, a second call   *)
(* with no accept in between returns the same snapshot, and the snapshot    *)
(* has exactly one entry per client id of the balances map, carrying that   *)
(* client's current available, held, total (as decimal values of the base   *)
(* units) and locked.                                                       *)
(***************************************************************************)
C19_BalancesPureRead ==
    pc = "snapshot" =>
        LET snapshot == result[2]
            value(d) == d[1] * BaseUnitsPerUnit + d[2]
        IN /\ Manager = pre
           /\ Balances(Manager).result = snapshot
           /\ {e.client_id : e \in snapshot} = DOMAIN balances
           /\ Cardinality(snapshot) = Cardinality(DOMAIN balances)
           /\ \A e \in snapshot :
                  /\ value(e.available) = balances[e.client_id].available_base_units
                  /\ value(e.held) = balances[e.client_id].held_base_units
                  /\ value(e.total) = balances[e.client_id].total_base_units
                  /\ e.locked = balances[e.client_id].locked

\* balances() has just returned a snapshot of two clients, one of them
\* with a negative available and funds held.
C19_Witness ==
    /\ pc = "snapshot"
    /\ Cardinality(result[2]) = 2
    /\ \E e \in result[2] :
           /\ balances[e.client_id].available_base_units < 0
           /\ balances[e.client_id].held_base_units > 0

(***************************************************************************)
(* C21.  Frame of accept: a call accept(t) changes at most the balance of   *)
(* the client named in t and at most the record whose id is t's id: every   *)
(* other client's balance (and its presence in the map) and every other     *)
(* record is as before.  A deposit or withdrawal changes no record that     *)
(* existed before the call, and a dispute, resolve or chargeback adds no    *)
(* key to the transaction map.                                              *)
(***************************************************************************)
C21_AcceptFrame ==
    pc = "accepted"
    => /\ \A c \in ClientIds \ {last.client_id} :
              /\ c \in DOMAIN balances <=> c \in DOMAIN pre.balances
              /\ c \in DOMAIN balances => balances[c] = pre.balances[c]
       /\ \A id \in TxIds \ {last.id} :
              /\ id \in DOMAIN transactions <=> id \in DOMAIN pre.transactions
              /\ id \in DOMAIN transactions => transactions[id] = pre.transactions[id]
       /\ last.kind \in {"Deposit", "Withdrawal"}
          => \A id \in DOMAIN pre.transactions :
                 /\ id \in DOMAIN transactions
                 /\ transactions[id] = pre.transactions[id]
       /\ last.kind \in {"Dispute", "Resolve", "Chargeback"}
          => DOMAIN transactions = DOMAIN pre.transactions

\* A resolve by client 1 of its disputed deposit has just succeeded while
\* client 2 has a balance and a disputed deposit of its own: client 1's
\* balance and record changed, client 2's did not.
C21_Witness ==
    /\ pc = "accepted"
    /\ last.kind = "Resolve"
    /\ result = Ok
    /\ DOMAIN pre.balances = {1, 2}
    /\ DOMAIN pre.transactions = {1, 2}
    /\ balances[last.client_id] # pre.balances[last.client_id]
    /\ transactions[last.id] # pre.transactions[last.id]
    /\ \E id \in TxIds \ {last.id} :
           /\ transactions[id].client_id # last.client_id
           /\ transactions[id].status = "Disputed"
           /\ transactions[id].amount_base_units > 0

(***************************************************************************)
(* C22.  A rejected transaction never creates a balance entry: after every  *)
(* accept call that returns an error the set of client ids of the balances  *)
(* map is the same as before the call.                                      *)
(* Violated: withdrawal calls get_balance_mut, which inserts a zero balance *)
(* for an unseen client, before Balance::withdrawal returns                 *)
(* InsufficientFunds.                                                       *)
(***************************************************************************)
C22_RejectedCreatesNoBalance ==
    (pc = "accepted" /\ ~IsOk(result))
    => DOMAIN balances = DOMAIN pre.balances

(***************************************************************************)
(* C23.  As stated: some sequence of accept calls (here: of at most         *)
(* MaxCalls calls on a new engine) yields an engine in which a client's     *)
(* held is negative, or equivalently its available exceeds its total.       *)
(* Violated in the initial state: no such sequence exists.                  *)
(***************************************************************************)
C23_Original ==
    Manager = ManagerNew
    => \E m \in AfterCalls(MaxCalls) : \E c \in DOMAIN m.balances :
           \/ m.balances[c].held_base_units < 0
           \/ m.balances[c].available_base_units > m.balances[c].total_base_units

(***************************************************************************)
(* C23, amended.  In every reachable state every client's held is >= 0 and  *)
(* its available is <= its total: a chargeback takes from held only what    *)
(* the dispute before it put there, and it leaves held non-negative even    *)
(* when it makes total negative.                                            *)
(***************************************************************************)
C23_HeldNeverNegative ==
    /\ \A c \in DOMAIN balances :
           /\ balances[c].held_base_units >= 0
           /\ balances[c].available_base_units <= balances[c].total_base_units
    /\ (pc = "accepted" /\ last.kind = "Chargeback" /\ IsOk(result))
       => /\ balances[last.client_id].held_base_units =
                 pre.balances[last.client_id].held_base_units
                     - pre.transactions[last.id].amount_base_units
          /\ pre.balances[last.client_id].held_base_units
                 >= pre.transactions[last.id].amount_base_units

\* A chargeback has just succeeded on an overdrawn client: held is back to
\* 0 while available and total are negative.
C23_Witness ==
    /\ pc = "accepted"
    /\ last.kind = "Chargeback"
    /\ result = Ok
    /\ pre.balances[last.client_id].held_base_units > 0
    /\ balances[last.client_id].held_base_units = 0
    /\ balances[last.client_id].available_base_units < 0
    /\ balances[last.client_id].total_base_units < 0

(***************************************************************************)
(* C24.  The duplicate-insertion panic of insert_transaction is             *)
(* unreachable: no accept call ends in the panic, and whenever a deposit or *)
(* withdrawal inserted its record the id was not a key of the transaction   *)
(* map when the call began.                                                 *)
(***************************************************************************)
C24_PanicUnreachable ==
    /\ result # Err("Panic")
    /\ (/\ pc = "accepted"
        /\ last.kind \in {"Deposit", "Withdrawal"}
        /\ transactions # pre.transactions)
       => /\ last.id \notin DOMAIN pre.transactions
          /\ DOMAIN transactions = DOMAIN pre.transactions \cup {last.id}

\* A withdrawal has just inserted its record, after an earlier deposit; the
\* deposit's id is still there.
C24_Witness ==
    /\ pc = "accepted"
    /\ last.kind = "Withdrawal"
    /\ result = Ok
    /\ DOMAIN pre.transactions # {}
    /\ last.id \notin DOMAIN pre.transactions
    /\ last.id \in DOMAIN transactions
    /\ last.amount_base_units > 0

(***************************************************************************)
(* C25.  In every reachable state each client's held equals the sum of the  *)
(* stored amounts of that client's records in status Disputed (0 when       *)
(* there are none); a client that owns a record has a balance.              *)
(***************************************************************************)
C25_HeldIsDisputedSum ==
    /\ \A c \in DOMAIN balances :
           balances[c].held_base_units =
               SumAmounts(transactions,
                          RecordsOf(transactions, c, {"Deposit", "Withdrawal"}, {"Disputed"}))
    /\ \A id \in DOMAIN transactions : transactions[id].client_id \in DOMAIN balances

\* One client has two deposits under dispute at once, of different amounts,
\* and another client has none.
C25_Witness ==
    \E c \in DOMAIN balances, other \in DOMAIN balances :
        /\ Cardinality(RecordsOf(transactions, c, {"Deposit"}, {"Disputed"})) = 2
        /\ balances[c].held_base_units = 150
        /\ other # c
        /\ balances[other].held_base_units = 0

(***************************************************************************)
(* C26.  Ledger conservation: in every reachable state each client's total  *)
(* equals the sum of the amounts of that client's Deposit records whose     *)
(* status is not Chargeback minus the sum of the amounts of that client's   *)
(* Withdrawal records.                                                      *)
(***************************************************************************)
C26_LedgerConservation ==
    \A c \in DOMAIN balances :
        balances[c].total_base_units =
            SumAmounts(transactions,
                       RecordsOf(transactions, c, {"Deposit"}, Statuses \ {"Chargeback"}))
            - SumAmounts(transactions,
                         RecordsOf(transactions, c, {"Withdrawal"}, Statuses))

\* A client with a charged-back deposit and a withdrawal: its total is
\* minus the amount withdrawn.
C26_Witness ==
    \E c \in DOMAIN balances :
        /\ RecordsOf(transactions, c, {"Deposit"}, {"Chargeback"}) # {}
        /\ RecordsOf(transactions, c, {"Withdrawal"}, Statuses) # {}
        /\ balances[c].total_base_units < 0

(***************************************************************************)
(* C27.  In every reachable state a client's locked flag is true if and     *)
(* only if at least one record owned by that client has status Chargeback.  *)
(***************************************************************************)
C27_LockedIffChargeback ==
    \A c \in ClientIds :
        (c \in DOMAIN balances /\ balances[c].locked)
        <=> RecordsOf(transactions, c, {"Deposit", "Withdrawal"}, {"Chargeback"}) # {}

\* A locked client with a charged-back deposit that went on to make a
\* deposit, next to a client that is not locked.
C27_Witness ==
    \E c \in DOMAIN balances, other \in DOMAIN balances :
        /\ balances[c].locked
        /\ RecordsOf(transactions, c, {"Deposit"}, {"Chargeback"}) # {}
        /\ RecordsOf(transactions, c, {"Deposit"}, {"Valid"}) # {}
        /\ ~balances[other].locked

(***************************************************************************)
(* C28.  A client's available is negative only if that client owns a        *)
(* Deposit record in status Disputed or Chargeback: for a client none of    *)
(* whose deposits is Disputed or Chargeback, available >= 0 (a withdrawal   *)
(* alone never overdraws).                                                  *)
(***************************************************************************)
C28_OverdrawnOnlyByDispute ==
    \A c \in DOMAIN balances :
        balances[c].available_base_units < 0
        => RecordsOf(transactions, c, {"Deposit"}, {"Disputed", "Chargeback"}) # {}

\* A client that withdrew all of a deposit which was then disputed and
\* resolved: no deposit is Disputed or Chargeback and available is back to 0.
C28_Witness ==
    \E c \in DOMAIN balances :
        /\ RecordsOf(transactions, c, {"Deposit"}, {"Resolved"}) # {}
        /\ RecordsOf(transactions, c, {"Withdrawal"}, Statuses) # {}
        /\ RecordsOf(transactions, c, {"Deposit"}, {"Disputed", "Chargeback"}) = {}
        /\ balances[c].available_base_units = 0
        /\ pc = "accepted"
        /\ last.kind = "Resolve"
        /\ pre.balances[c].available_base_units < 0

(***************************************************************************)
(* C29.  A rejected deposit or withdrawal does not reserve its id.  Right   *)
(* after a deposit or withdrawal with id X has failed with                  *)
(* InsufficientFunds or AmountIsNegative, X is not a key of the transaction *)
(* map; a dispute of X by any client returns DisputedTransactionNotFound    *)
(* and changes nothing; and after it no deposit or withdrawal with id X is  *)
(* rejected as DuplicateTransaction: a deposit of a non-negative amount     *)
(* succeeds and stores the record under X.                                  *)
(***************************************************************************)
C29_RejectedIdNotReserved ==
    (/\ pc = "accepted"
     /\ last.kind \in {"Deposit", "Withdrawal"}
     /\ result \in {Err("InsufficientFunds"), Err("AmountIsNegative")})
    => /\ last.id \notin DOMAIN transactions
       /\ \A c \in ClientIds :
              LET d == Accept(Manager, TxDispute(last.id, c))
              IN /\ d.result = Err("DisputedTransactionNotFound")
                 /\ d.m = Manager
                 /\ \A c2 \in ClientIds, a \in Amounts :
                        LET dep == Accept(d.m, TxDeposit(last.id, c2, a))
                            wd == Accept(d.m, TxWithdrawal(last.id, c2, a))
                        IN /\ dep.result # Err("DuplicateTransaction")
                           /\ wd.result # Err("DuplicateTransaction")
                           /\ a >= 0
                              => /\ dep.result = Ok
                                 /\ last.id \in DOMAIN dep.m.transactions
                                 /\ dep.m.transactions[last.id].status = "Valid"
                           /\ IsOk(wd.result) => last.id \in DOMAIN wd.m.transactions

\* A withdrawal has just failed with InsufficientFunds while the engine
\* holds another record, and a withdrawal with the same id by another
\* client would now succeed.
C29_Witness ==
    /\ pc = "accepted"
    /\ last.kind = "Withdrawal"
    /\ result = Err("InsufficientFunds")
    /\ DOMAIN pre.transactions # {}
    /\ \E c2 \in ClientIds \ {last.client_id} :
           Accept(Manager, TxWithdrawal(last.id, c2, 50)).result = Ok
====
